---------------------------- MODULE Spec2Model ----------------------------
(***************************************************************************)
(* A model of ybubnov/openflow: the instruction codec of package ofp       *)
(* (instruction.go) and the runners of package openflow (runner.go).       *)
(*                                                                         *)
(* Byte streams are sequences of numbers 0..255.  A uint16 is a number     *)
(* 0..65535; a uint32 is a pair and a uint64 a 4-tuple of 16-bit limbs,     *)
(* most significant first: the big-endian conversions are computed limb by *)
(* limb, and a 64-bit all-ones value is representable.                     *)
(***************************************************************************)
EXTENDS Integers, Sequences, FiniteSets, TLC

VARIABLES
    \* ---- one instruction through WriteTo / ReadFrom
    x,        \* the instruction value handed to WriteTo
    ipc,      \* "off", "new", "written", "counted", "read"
    ibytes,   \* the bytes.Buffer the instruction was written to
    wLen,     \* header Len field seen by a counting writer
    wn,       \* number of bytes a counting writer received
    ires,     \* what ReadFrom returned and left in the variant
    \* ---- an instruction list through Instructions.WriteTo / ReadFrom
    wcalls,   \* instructions whose WriteTo the last Instructions.WriteTo called
    insts,    \* the list handed to Instructions.WriteTo
    lpc,      \* "off", "new", "wire", "scan", "done"
    stream,   \* the bytes of the reader handed to Instructions.ReadFrom
    wire,     \* the bytes of it not read yet
    list,     \* the receiver *i of Instructions.ReadFrom
    ln,       \* bytes reported read so far
    lerr,     \* error returned by Instructions.ReadFrom
    iters,    \* decode-loop iterations started
    \* ---- MultiRoutineRunner
    ppc,      \* "off", "none", "panic", "ready": the pool value
    arg,      \* the argument NewMultiRoutineRunner was called with
    ran,      \* callback -> number of times a worker started it
    num,      \* mrr.num
    q,        \* mrr.q: the callbacks buffered in the channel, oldest first
    onceDone, \* mrr.once: its done flag
    onceM,    \* mrr.once: the caller holding its mutex, 0 when free
    workers,  \* the goroutines started by init; each [pc, fn]
    cpc,      \* each caller's position in Run: "idle", "lock", "init", "send"
    ci,       \* each caller's loop variable i of init
    calls,    \* each caller's number of Run calls made
    \* ---- SequentialRunner
    spc,      \* each caller's position in Run: "off", "idle", "in"
    scalls,   \* each caller's number of Run calls made
    cbst      \* each callback: "new", "body" (started), "tail" (its side
              \* effect is written), "done" (returned)

codecVars == <<x, ipc, ibytes, wLen, wn, ires>>
listVars  == <<wcalls, insts, lpc, stream, wire, list, ln, lerr, iters>>
poolVars  == <<ppc, arg, ran, num, q, onceDone, onceM, workers, cpc, ci, calls>>
seqVars   == <<spc, scalls, cbst>>
vars      == <<codecVars, listVars, poolVars, seqVars>>

---------------------------------------------------------------------------
(* Bounds of the model.                                                    *)

\* longest action list of an ApplyActions / WriteActions instruction
MaxActions == 2
\* longest instruction list
MaxInsts == 2
\* largest pool size handed to NewMultiRoutineRunner
MaxNum == 2
\* goroutines calling Run
NumCallers == 2
\* Run calls of each caller on the pool
MaxRuns == 2
\* Run calls of each caller on the SequentialRunner
MaxSeqRuns == 3

\* Run calls made in all on a pool whose scheduling is fair
MaxCalls == 3

---------------------------------------------------------------------------
(* Fixed-width values and big-endian conversion (internal/encoding).       *)

Byte == 0..255

Zeros(n) == [k \in 1..n |-> 0]

\* uint16 arithmetic wraps modulo 2^16
U16(v) == v % 65536

BE16(v) == <<v \div 256, v % 256>>

\* the uint16 stored big-endian at offset o (1-based) of b
GetU16(b, o) == b[o] * 256 + b[o + 1]

BE32(m) == BE16(m[1]) \o BE16(m[2])

GetU32(b, o) == <<GetU16(b, o), GetU16(b, o + 2)>>

BE64(m) == BE16(m[1]) \o BE16(m[2]) \o BE16(m[3]) \o BE16(m[4])

GetU64(b, o) == <<GetU16(b, o), GetU16(b, o + 2), GetU16(b, o + 4), GetU16(b, o + 6)>>

Drop(b, n) == IF n >= Len(b) THEN <<>> ELSE SubSeq(b, n + 1, Len(b))

Take(b, n) == IF n >= Len(b) THEN b ELSE SubSeq(b, 1, n)

NoErr == [kind |-> "nil", tag |-> 0]

Err(k) == [kind |-> k, tag |-> 0]

\* sum of the first j widths
RECURSIVE Off(_, _)
Off(widths, j) == IF j = 0 THEN 0 ELSE Off(widths, j - 1) + widths[j]

\* encoding.ReadFrom(r, v...): the values are read in order, each with
\* binary.Read; the first one the stream cannot fill ends the call with io.EOF
\* (nothing left) or io.ErrUnexpectedEOF (a part of it left).  k: values read.
ReadFields(r, widths) ==
    LET k == Cardinality({j \in 1..Len(widths) : Off(widths, j) <= Len(r)})
        n == Off(widths, k)
    IN  [k |-> k, n |-> n,
         err |-> IF k = Len(widths) THEN NoErr
                 ELSE IF Len(r) = n THEN Err("EOF")
                 ELSE Err("ErrUnexpectedEOF")]

---------------------------------------------------------------------------
(* The Actions collaborator: an ordered list of actions with its own       *)
(* framing, type(2) length(2) argument(2) pad(2) and fill 8-byte words of  *)
(* zero padding, every action a multiple of 8 bytes long.                  *)

actionLen == 8

Action_bytes(a) ==
    BE16(a.type) \o BE16(actionLen + 8 * a.fill) \o BE16(a.arg) \o Zeros(2)
        \o Zeros(8 * a.fill)

RECURSIVE ConcatActions(_)
ConcatActions(as) ==
    IF as = <<>> THEN <<>> ELSE Action_bytes(Head(as)) \o ConcatActions(Tail(as))

\* Actions.bytes(): the actions serialized in order; an action whose length
\* does not fit its 16-bit length field cannot be serialized.
\* The error names the first such action by its type.
Actions_bytes(as) ==
    LET long == {k \in 1..Len(as) : actionLen + 8 * as[k].fill > 65535}
    IN  IF long # {}
            THEN [b |-> <<>>,
                  err |-> [kind |-> "actionTooLong",
                           tag |-> as[CHOOSE k \in long : \A j \in long : k <= j].type]]
        ELSE [b |-> ConcatActions(as), err |-> NoErr]

\* Actions.ReadFrom on a bounded reader holding r, appending to as: actions
\* are decoded until the reader is exhausted.  n: bytes read.
RECURSIVE Actions_ReadFrom(_, _)
Actions_ReadFrom(as, r) ==
    IF Len(r) = 0 THEN [actions |-> as, n |-> 0, err |-> NoErr]
    ELSE IF Len(r) < actionLen
        THEN [actions |-> as, n |-> 0, err |-> Err("ErrUnexpectedEOF")]
    ELSE LET l == GetU16(r, 3)
             a == [type |-> GetU16(r, 1), arg |-> GetU16(r, 5),
                   fill |-> (l - actionLen) \div 8]
         IN  IF l < actionLen \/ l % 8 # 0
                 THEN [actions |-> as, n |-> actionLen, err |-> Err("badActionLen")]
             ELSE IF l > Len(r)
                 THEN [actions |-> as, n |-> actionLen, err |-> Err("ErrUnexpectedEOF")]
             ELSE LET rest == Actions_ReadFrom(Append(as, a), Drop(r, l))
                  IN  [rest EXCEPT !.n = @ + l]

---------------------------------------------------------------------------
(* Instruction types, header and the six variants (instruction.go).        *)

InstructionTypeGotoTable == 1
InstructionTypeWriteMetadata == 2
InstructionTypeWriteActions == 3
InstructionTypeApplyActions == 4
InstructionTypeClearActions == 5
InstructionTypeMeter == 6
InstructionTypeExperimenter == 65535

instructionLen == 8

\* instructionhdr{Type, Len} as encoding.WriteTo lays it out
instructionhdr(t, l) == BE16(t) \o BE16(l)

\* the Type() methods
Type(i) ==
    CASE i.kind = "GotoTable" -> InstructionTypeGotoTable
      [] i.kind = "WriteMetadata" -> InstructionTypeWriteMetadata
      [] i.kind = "ApplyActions" -> InstructionTypeApplyActions
      [] i.kind = "WriteActions" -> InstructionTypeWriteActions
      [] i.kind = "ClearActions" -> InstructionTypeClearActions
      [] i.kind = "Meter" -> InstructionTypeMeter

GotoTable_WriteTo(i) ==
    [b |-> instructionhdr(Type(i), 8) \o <<i.table>> \o Zeros(3), err |-> NoErr]

GotoTable_ReadFrom(i, r) ==
    LET f == ReadFields(r, <<4, 1, 3>>)
    IN  [inst |-> IF f.k >= 2 THEN [i EXCEPT !.table = r[5]] ELSE i,
         n |-> f.n, err |-> f.err]

WriteMetadata_WriteTo(i) ==
    [b |-> instructionhdr(Type(i), 24) \o Zeros(4) \o BE64(i.metadata)
               \o BE64(i.mask),
     err |-> NoErr]

WriteMetadata_ReadFrom(i, r) ==
    LET f  == ReadFields(r, <<4, 4, 8, 8>>)
        i1 == IF f.k >= 3 THEN [i EXCEPT !.metadata = GetU64(r, 9)] ELSE i
        i2 == IF f.k >= 4 THEN [i1 EXCEPT !.mask = GetU64(r, 17)] ELSE i1
    IN  [inst |-> i2, n |-> f.n, err |-> f.err]

writeInstructionActions(t, actions) ==
    LET buf == Actions_bytes(actions)
    IN  IF buf.err # NoErr THEN [b |-> <<>>, err |-> buf.err]
        ELSE [b |-> instructionhdr(t, U16(U16(Len(buf.b)) + instructionLen))
                        \o Zeros(4) \o buf.b,
              err |-> NoErr]

\* io.LimitReader(r, int64(header.Len-4)) once the four header bytes of r
\* are read: the bytes the Actions decoder can see.  The subtraction is on
\* uint16.
limrd(r) == Take(Drop(r, 4), U16(GetU16(r, 3) - 4))

\* actions is the callee's copy of the slice header; what Actions.ReadFrom
\* appends is held by that copy.
readInstructionActions(r, actions) ==
    LET f == ReadFields(r, <<4>>)
    IN  IF f.err # NoErr THEN [n |-> f.n, err |-> f.err, actions |-> actions]
        ELSE LET a == Actions_ReadFrom(actions, limrd(r))
             IN  [n |-> f.n + a.n, err |-> a.err, actions |-> a.actions]

ApplyActions_WriteTo(i) == writeInstructionActions(Type(i), i.actions)

\* i.Actions is passed by value: the variant keeps the list it had
ApplyActions_ReadFrom(i, r) ==
    LET res == readInstructionActions(r, i.actions)
    IN  [inst |-> i, n |-> res.n, err |-> res.err]

WriteActions_WriteTo(i) == writeInstructionActions(Type(i), i.actions)

WriteActions_ReadFrom(i, r) ==
    LET res == readInstructionActions(r, i.actions)
    IN  [inst |-> i, n |-> res.n, err |-> res.err]

ClearActions_WriteTo(i) == writeInstructionActions(Type(i), <<>>)

\* a ReadFrom that returns without reading
ClearActions_ReadNothing(i, r) == [inst |-> i, n |-> 0, err |-> NoErr]

ClearActions_ReadFrom(i, r) ==
    LET f == ReadFields(r, <<8>>)
    IN  [inst |-> i, n |-> f.n, err |-> f.err]

Meter_WriteTo(i) ==
    [b |-> instructionhdr(Type(i), 8) \o BE32(i.meter), err |-> NoErr]

Meter_ReadFrom(i, r) ==
    LET f == ReadFields(r, <<4, 4>>)
    IN  [inst |-> IF f.k >= 2 THEN [i EXCEPT !.meter = GetU32(r, 5)] ELSE i,
         n |-> f.n, err |-> f.err]

\* dynamic dispatch of Instruction.WriteTo
WriteTo(i) ==
    CASE i.kind = "GotoTable" -> GotoTable_WriteTo(i)
      [] i.kind = "WriteMetadata" -> WriteMetadata_WriteTo(i)
      [] i.kind = "ApplyActions" -> ApplyActions_WriteTo(i)
      [] i.kind = "WriteActions" -> WriteActions_WriteTo(i)
      [] i.kind = "ClearActions" -> ClearActions_WriteTo(i)
      [] i.kind = "Meter" -> Meter_WriteTo(i)

\* dynamic dispatch of Instruction.ReadFrom
ReadFrom(i, r) ==
    CASE i.kind = "GotoTable" -> GotoTable_ReadFrom(i, r)
      [] i.kind = "WriteMetadata" -> WriteMetadata_ReadFrom(i, r)
      [] i.kind = "ApplyActions" -> ApplyActions_ReadFrom(i, r)
      [] i.kind = "WriteActions" -> WriteActions_ReadFrom(i, r)
      [] i.kind = "ClearActions" -> ClearActions_ReadFrom(i, r)
      [] i.kind = "Meter" -> Meter_ReadFrom(i, r)

\* the zero value of each variant type
ZeroValue(kind) ==
    CASE kind = "GotoTable" -> [kind |-> kind, table |-> 0]
      [] kind = "WriteMetadata" ->
            [kind |-> kind, metadata |-> <<0, 0, 0, 0>>, mask |-> <<0, 0, 0, 0>>]
      [] kind = "ApplyActions" -> [kind |-> kind, actions |-> <<>>]
      [] kind = "WriteActions" -> [kind |-> kind, actions |-> <<>>]
      [] kind = "ClearActions" -> [kind |-> kind]
      [] kind = "Meter" -> [kind |-> kind, meter |-> <<0, 0>>]

---------------------------------------------------------------------------
(* The instruction list (Instructions.WriteTo, Instructions.ReadFrom).     *)

\* a registry that has the two action-list variants under each other's tag
instructionMapCrossed ==
    (InstructionTypeGotoTable :> "GotoTable")
        @@ (InstructionTypeWriteMetadata :> "WriteMetadata")
        @@ (InstructionTypeApplyActions :> "WriteActions")
        @@ (InstructionTypeWriteActions :> "ApplyActions")
        @@ (InstructionTypeClearActions :> "ClearActions")
        @@ (InstructionTypeMeter :> "Meter")

\* instructionMap: type tag -> the variant type its ReaderMaker makes
instructionMap ==
    (InstructionTypeGotoTable :> "GotoTable")
        @@ (InstructionTypeWriteMetadata :> "WriteMetadata")
        @@ (InstructionTypeApplyActions :> "ApplyActions")
        @@ (InstructionTypeWriteActions :> "WriteActions")
        @@ (InstructionTypeClearActions :> "ClearActions")
        @@ (InstructionTypeMeter :> "Meter")

UnknownType(t) == [kind |-> "unknownInstructionType", tag |-> t]

\* a loop that hands w what was buffered when an instruction fails
RECURSIVE WriteBufFlushes(_, _, _)
WriteBufFlushes(l, k, buf) ==
    IF k > Len(l) THEN [b |-> buf, err |-> NoErr, w |-> buf, k |-> k - 1]
    ELSE LET r == WriteTo(l[k])
         IN  IF r.err # NoErr
                 THEN [b |-> buf \o r.b, err |-> r.err, w |-> buf \o r.b, k |-> k]
             ELSE WriteBufFlushes(l, k + 1, buf \o r.b)

\* Instructions.WriteTo: every instruction is written to buf in order, the
\* first failure returns; buf is then written to w.  k: next index, and in
\* the result the number of instructions whose WriteTo was called.
RECURSIVE WriteBuf(_, _, _)
WriteBuf(l, k, buf) ==
    IF k > Len(l) THEN [b |-> buf, err |-> NoErr, w |-> buf, k |-> k - 1]
    ELSE LET r == WriteTo(l[k])
         IN  IF r.err # NoErr
                 THEN [b |-> buf \o r.b, err |-> r.err, w |-> <<>>, k |-> k]
             ELSE WriteBuf(l, k + 1, buf \o r.b)

Instructions_WriteTo(l) == WriteBuf(l, 1, <<>>)

\* rm taking an unregistered tag for an instruction without fields
rmLenient(l, instType) ==
    LET kind == IF instType \in DOMAIN instructionMap
                   THEN instructionMap[instType] ELSE "ClearActions"
    IN  [ok |-> TRUE, rd |-> ZeroValue(kind), list |-> Append(l, ZeroValue(kind)),
         err |-> NoErr]

\* the closure rm of Instructions.ReadFrom: the reader made for instType is
\* appended to the list as it is made
rm(l, instType) ==
    IF instType \in DOMAIN instructionMap
        THEN [ok |-> TRUE, rd |-> ZeroValue(instructionMap[instType]),
              list |-> Append(l, ZeroValue(instructionMap[instType])),
              err |-> NoErr]
    ELSE [ok |-> FALSE, rd |-> ZeroValue("ClearActions"), list |-> l,
          err |-> UnknownType(instType)]

\* one iteration of encoding.ScanFrom(r, &instType, rm) on the unread bytes
\* r: the tag is peeked, rm makes the reader, the reader reads from r.
ScanIteration(l, r) ==
    IF Len(r) = 0 THEN [done |-> TRUE, list |-> l, n |-> 0, err |-> NoErr]
    ELSE IF Len(r) < 2
        THEN [done |-> TRUE, list |-> l, n |-> 0, err |-> Err("ErrUnexpectedEOF")]
    ELSE LET m == rm(l, GetU16(r, 1))
         IN  IF ~m.ok THEN [done |-> TRUE, list |-> m.list, n |-> 0, err |-> m.err]
             ELSE LET res == ReadFrom(m.rd, r)
                  IN  [done |-> res.err # NoErr,
                       list |-> [m.list EXCEPT ![Len(m.list)] = res.inst],
                       n |-> res.n, err |-> res.err]

---------------------------------------------------------------------------
(* Inputs.                                                                 *)

TableValues == {0, 1, 255}

U64Values == {<<0, 0, 0, 0>>, <<65535, 65535, 65535, 65535>>, <<258, 772, 1286, 1800>>}

MeterValues == {<<0, 0>>, <<65535, 65535>>, <<258, 772>>}

ActionPool == {[type |-> 0, arg |-> 1, fill |-> 0], [type |-> 22, arg |-> 258, fill |-> 1]}

ActionLists == UNION {[1..n -> ActionPool] : n \in 0..MaxActions}

\* the fill of the shortest action whose list no longer fits the header's Len
WrapFill == (65536 - instructionLen - actionLen) \div 8

BigActions == <<[type |-> 65535, arg |-> 0, fill |-> WrapFill]>>

InstPool ==
    {[kind |-> "GotoTable", table |-> t] : t \in TableValues}
        \cup {[kind |-> "WriteMetadata", metadata |-> m, mask |-> k] :
                m \in U64Values, k \in U64Values}
        \cup {[kind |-> "ApplyActions", actions |-> a] : a \in ActionLists}
        \cup {[kind |-> "WriteActions", actions |-> a] : a \in ActionLists}
        \cup {[kind |-> "ClearActions"]}
        \cup {[kind |-> "Meter", meter |-> m] : m \in MeterValues}

BigInsts ==
    {[kind |-> "ApplyActions", actions |-> BigActions],
     [kind |-> "WriteActions", actions |-> BigActions]}

\* header Len values a peer may send
HeaderLens == {0, 4, 7, 8, 12, 16, 24, 25}

\* numbers of bytes that a stream may lose at its end
CutLens == {1, 4, 7, 20}

\* type tags a peer may send
HeaderTags == {0, 1, 5, 7, 4660, InstructionTypeExperimenter}

ListPool ==
    {[kind |-> "GotoTable", table |-> 255],
     [kind |-> "WriteMetadata", metadata |-> <<258, 772, 1286, 1800>>,
      mask |-> <<65535, 65535, 65535, 65535>>],
     [kind |-> "ApplyActions", actions |-> <<[type |-> 0, arg |-> 1, fill |-> 0]>>],
     [kind |-> "WriteActions", actions |-> <<>>],
     [kind |-> "ClearActions"],
     [kind |-> "Meter", meter |-> <<258, 772>>],
     [kind |-> "Meter", meter |-> <<0, 0>>]}

\* the fill of the shortest action that does not fit its own length field
LongFill == (65536 - actionLen) \div 8

\* instructions whose WriteTo fails, each with an error of its own
FailPool ==
    {[kind |-> "ApplyActions", actions |-> <<[type |-> 1, arg |-> 0, fill |-> LongFill]>>],
     [kind |-> "WriteActions", actions |-> <<[type |-> 2, arg |-> 0, fill |-> LongFill]>>]}

InstLists == UNION {[1..n -> ListPool \cup FailPool] : n \in 0..MaxInsts}

NoResult == [inst |-> ZeroValue("ClearActions"), n |-> 0, err |-> NoErr]

---------------------------------------------------------------------------
(* One instruction through WriteTo and ReadFrom.                           *)

CodecOff ==
    /\ x = ZeroValue("ClearActions") /\ ipc = "off" /\ ibytes = <<>>
    /\ wLen = 0 /\ wn = 0 /\ ires = NoResult

ListOff ==
    /\ wcalls = 0 /\ insts = <<>> /\ lpc = "off" /\ stream = <<>> /\ wire = <<>>
    /\ list = <<>> /\ ln = 0 /\ lerr = NoErr /\ iters = 0

Callers == 1..NumCallers

\* <<c, k>>, k <= MaxRuns: the callback of the k-th Run call of caller c;
\* <<c, MaxRuns + k>>: the callback that <<c, k>> hands to Run itself
PoolCallbacks == Callers \X (1..(2 * MaxRuns))

PoolOff ==
    /\ ppc = "off" /\ arg = 0 /\ num = 0 /\ q = <<>>
    /\ ran = [cb \in PoolCallbacks |-> 0] /\ onceDone = FALSE /\ onceM = 0
    /\ workers = <<>>
    /\ cpc = [c \in Callers |-> "idle"]
    /\ ci = [c \in Callers |-> 0]
    /\ calls = [c \in Callers |-> 0]

\* the callbacks of the SequentialRunner: <<c, k>> is the k-th one caller c
\* hands to Run
Callbacks == Callers \X (1..MaxSeqRuns)

SeqOff ==
    /\ spc = [c \in Callers |-> "off"]
    /\ scalls = [c \in Callers |-> 0]
    /\ cbst = [cb \in Callbacks |-> "new"]

InitVariant ==
    /\ x \in InstPool \cup BigInsts
    /\ ipc = "new" /\ ibytes = <<>> /\ wLen = 0 /\ wn = 0 /\ ires = NoResult
    /\ ListOff /\ PoolOff /\ SeqOff

\* x.WriteTo(&buf) on a bytes.Buffer, whose content is then read back; the
\* instructions of BigInsts are written to the counting writer only
InstWriteTo ==
    /\ ipc = "new" /\ x \in InstPool
    /\ WriteTo(x).err = NoErr
    /\ ibytes' = WriteTo(x).b
    /\ ipc' = "written"
    /\ UNCHANGED <<x, wLen, wn, ires, listVars, poolVars, seqVars>>

\* x.WriteTo(w) on a writer that keeps the header's Len field and counts
InstWriteCounted ==
    /\ ipc = "new"
    /\ WriteTo(x).err = NoErr
    /\ wLen' = GetU16(WriteTo(x).b, 3)
    /\ wn' = Len(WriteTo(x).b)
    /\ ipc' = "counted"
    /\ UNCHANGED <<x, ibytes, ires, listVars, poolVars, seqVars>>

\* the bytes come from a peer whose header holds another Len
PeerSetsLen ==
    /\ ipc = "written" /\ ibytes = WriteTo(x).b
    /\ \E v \in HeaderLens :
          /\ v # GetU16(ibytes, 3)
          /\ ibytes' = [ibytes EXCEPT ![3] = BE16(v)[1], ![4] = BE16(v)[2]]
    /\ UNCHANGED <<x, ipc, wLen, wn, ires, listVars, poolVars, seqVars>>

\* ReadFrom on the zero value of x's type over the bytes
InstReadFrom ==
    /\ ipc = "written"
    /\ ires' = ReadFrom(ZeroValue(x.kind), ibytes)
    /\ ipc' = "read"
    /\ UNCHANGED <<x, ibytes, wLen, wn, listVars, poolVars, seqVars>>

NextVariant == InstWriteTo \/ InstWriteCounted \/ PeerSetsLen \/ InstReadFrom

SpecVariant == InitVariant /\ [][NextVariant]_vars

---------------------------------------------------------------------------
(* An instruction list through Instructions.WriteTo and ReadFrom.          *)

InitList ==
    /\ insts \in InstLists /\ wcalls = 0
    /\ lpc = "new" /\ stream = <<>> /\ wire = <<>>
    /\ list = <<>> /\ ln = 0 /\ lerr = NoErr /\ iters = 0
    /\ CodecOff /\ PoolOff /\ SeqOff

\* insts.WriteTo(w): w receives the buffer when every instruction was written
ListWriteTo ==
    /\ lpc = "new"
    /\ LET r == Instructions_WriteTo(insts)
       IN  /\ stream' = r.w
           /\ lerr' = r.err
           /\ wcalls' = r.k
           /\ lpc' = IF r.err = NoErr THEN "wire" ELSE "wfail"
    /\ UNCHANGED <<insts, wire, list, ln, iters, codecVars, poolVars, seqVars>>

\* offset (1-based) of the header of the j-th instruction written
HeaderAt(l, j) == Len(Instructions_WriteTo(SubSeq(l, 1, j - 1)).b) + 1

\* the bytes come from a peer whose j-th header holds another type tag
PeerSetsTag ==
    /\ lpc = "wire" /\ stream = Instructions_WriteTo(insts).w
    /\ \E j \in 1..Len(insts), v \in HeaderTags :
          LET o == HeaderAt(insts, j)
          IN  /\ v # GetU16(stream, o)
              /\ stream' = [stream EXCEPT ![o] = BE16(v)[1], ![o + 1] = BE16(v)[2]]
    /\ UNCHANGED <<wcalls, insts, lpc, wire, list, ln, lerr, iters, codecVars, poolVars,
                   seqVars>>

\* the bytes reach the reader cut short
PeerTruncates ==
    /\ lpc = "wire" /\ stream = Instructions_WriteTo(insts).w
    /\ \E n \in CutLens :
          /\ n <= Len(stream)
          /\ stream' = Take(stream, Len(stream) - n)
    /\ UNCHANGED <<wcalls, insts, lpc, wire, list, ln, lerr, iters, codecVars, poolVars,
                   seqVars>>

\* Instructions.ReadFrom(r) is entered with an empty list
ListReadFrom ==
    /\ lpc = "wire"
    /\ lpc' = "scan"
    /\ wire' = stream
    /\ list' = <<>> /\ ln' = 0 /\ iters' = 0
    /\ UNCHANGED <<wcalls, insts, stream, lerr, codecVars, poolVars, seqVars>>

\* one iteration of its decode loop
ScanStep ==
    /\ lpc = "scan"
    /\ LET it == ScanIteration(list, wire)
       IN  /\ list' = it.list
           /\ ln' = ln + it.n
           /\ wire' = Drop(wire, it.n)
           /\ lerr' = it.err
           /\ lpc' = IF it.done THEN "done" ELSE "scan"
    /\ iters' = iters + 1
    /\ UNCHANGED <<wcalls, insts, stream, codecVars, poolVars, seqVars>>

NextList == ListWriteTo \/ PeerSetsTag \/ PeerTruncates \/ ListReadFrom \/ ScanStep

SpecList == InitList /\ [][NextList]_vars

---------------------------------------------------------------------------
(* MultiRoutineRunner (runner.go).                                         *)

InitPool ==
    /\ ppc = "none" /\ arg = 0 /\ num = 0 /\ q = <<>>
    /\ ran = [cb \in PoolCallbacks |-> 0] /\ onceDone = FALSE /\ onceM = 0
    /\ workers = <<>>
    /\ cpc = [c \in Callers |-> "idle"]
    /\ ci = [c \in Callers |-> 0]
    /\ calls = [c \in Callers |-> 0]
    /\ CodecOff /\ ListOff /\ SeqOff

\* a test that lets zero through
NumNegative(n) == n < 0

\* the test of NewMultiRoutineRunner that panics
NumNotPositive(n) == n <= 0

\* NewMultiRoutineRunner(n)
NewMultiRoutineRunner ==
    /\ ppc = "none"
    /\ \E n \in (-1)..MaxNum :
          /\ arg' = n
          /\ IF NumNotPositive(n)
                THEN ppc' = "panic" /\ UNCHANGED num
             ELSE ppc' = "ready" /\ num' = n
    /\ UNCHANGED <<ran, q, onceDone, onceM, workers, cpc, ci, calls, codecVars, listVars,
                   seqVars>>

\* a channel made one slot too large
QueueCapPlusOne == num + 1

\* capacity of the channel made by make(chan func(), num)
QueueCap == num

\* init starting no worker
InitLoopCondNever(i) == FALSE

\* init looping once too often
InitLoopCondOffByOne(i) == i <= num

\* the loop condition of init
InitLoopCond(i) == i < num

\* a guard that excludes nobody, as a plain flag test would
OnceUnguarded == TRUE

\* mrr.once.Do finds the mutex of the Once free
OnceLockFree == onceM = 0

\* a caller enters Run(fn), fn being its calls[c]+1-th callback, and
\* once.Do reads the done flag (its fast path)
RunCall(c) ==
    /\ ppc = "ready" /\ cpc[c] = "idle" /\ calls[c] < MaxRuns
    /\ calls' = [calls EXCEPT ![c] = @ + 1]
    /\ cpc' = [cpc EXCEPT ![c] = IF onceDone THEN "send" ELSE "lock"]
    /\ UNCHANGED <<ppc, arg, ran, num, q, onceDone, onceM, workers, ci, codecVars, listVars, seqVars>>

\* once.Do, slow path: the mutex is taken and the flag read again
OnceLock(c) ==
    /\ cpc[c] = "lock" /\ OnceLockFree
    /\ IF onceDone
          THEN cpc' = [cpc EXCEPT ![c] = "send"] /\ UNCHANGED <<onceM, ci>>
       ELSE /\ cpc' = [cpc EXCEPT ![c] = "init"]
            /\ onceM' = c
            /\ ci' = [ci EXCEPT ![c] = 0]
    /\ UNCHANGED <<ppc, arg, ran, num, q, onceDone, workers, calls, codecVars, listVars, seqVars>>

\* init: go mrr.runner()
InitSpawn(c) ==
    /\ cpc[c] = "init" /\ InitLoopCond(ci[c])
    /\ workers' = Append(workers, [pc |-> "recv", fn |-> <<0, 0>>])
    /\ ci' = [ci EXCEPT ![c] = @ + 1]
    /\ UNCHANGED <<ppc, arg, ran, num, q, onceDone, onceM, cpc, calls, codecVars, listVars, seqVars>>

\* init returns: the Once stores done and releases its mutex
InitReturn(c) ==
    /\ cpc[c] = "init" /\ ~InitLoopCond(ci[c])
    /\ onceDone' = TRUE
    /\ onceM' = IF onceM = c THEN 0 ELSE onceM
    /\ cpc' = [cpc EXCEPT ![c] = "send"]
    /\ UNCHANGED <<ppc, arg, ran, num, q, workers, ci, calls, codecVars, listVars, seqVars>>

\* mrr.q <- fn: blocks while the buffer is full
Send(c) ==
    /\ cpc[c] = "send" /\ Len(q) < QueueCap
    /\ q' = Append(q, <<c, calls[c]>>)
    /\ cpc' = [cpc EXCEPT ![c] = "idle"]
    /\ UNCHANGED <<ppc, arg, ran, num, onceDone, onceM, workers, ci, calls, codecVars, listVars, seqVars>>

\* a receive that takes the newest element
RecvNewest(ch) == [fn |-> ch[Len(ch)], rest |-> SubSeq(ch, 1, Len(ch) - 1)]

\* a receive from the buffered channel ch: the oldest element leaves
Recv(ch) == [fn |-> Head(ch), rest |-> Tail(ch)]

\* runner: fn := <-mrr.q, then fn() starts
Receive(w) ==
    /\ workers[w].pc = "recv" /\ q # <<>>
    /\ workers' = [workers EXCEPT ![w] = [pc |-> "exec", fn |-> Recv(q).fn]]
    /\ q' = Recv(q).rest
    /\ ran' = [ran EXCEPT ![Recv(q).fn] = @ + 1]
    /\ UNCHANGED <<ppc, arg, num, onceDone, onceM, cpc, ci, calls, codecVars, listVars, seqVars>>

\* runner: fn() returns, having called Run ("ret") or not ("exec")
Finish(w) ==
    /\ workers[w].pc \in {"exec", "ret"}
    /\ workers' = [workers EXCEPT ![w] = [pc |-> "recv", fn |-> <<0, 0>>]]
    /\ UNCHANGED <<ppc, arg, ran, num, q, onceDone, onceM, cpc, ci, calls, codecVars, listVars, seqVars>>

NextPool ==
    \/ NewMultiRoutineRunner
    \/ \E c \in Callers : RunCall(c)
    \/ \E c \in Callers : OnceLock(c)
    \/ \E c \in Callers : InitSpawn(c)
    \/ \E c \in Callers : InitReturn(c)
    \/ \E c \in Callers : Send(c)
    \/ \E w \in 1..Len(workers) : Receive(w)
    \/ \E w \in 1..Len(workers) : Finish(w)

SpecPool == InitPool /\ [][NextPool]_vars

\* The scheduler runs every goroutine that can take a step, and a goroutine
\* parked on the channel is woken when the channel can serve it.
FairPool ==
    /\ \A c \in Callers :
          /\ WF_vars(OnceLock(c)) /\ WF_vars(InitSpawn(c))
          /\ WF_vars(InitReturn(c)) /\ WF_vars(Send(c))
    /\ \A w \in 1..MaxNum :
          /\ WF_vars(w <= Len(workers) /\ Receive(w))
          /\ WF_vars(w <= Len(workers) /\ Finish(w))

\* Run calls made so far by the callers 1..c
RECURSIVE CallsUpTo(_)
CallsUpTo(c) == IF c = 0 THEN 0 ELSE calls[c] + CallsUpTo(c - 1)

\* the callers make MaxCalls Run calls in all
RunCallCounted(c) == CallsUpTo(NumCallers) < MaxCalls /\ RunCall(c)

NextPoolCounted ==
    \/ NewMultiRoutineRunner
    \/ \E c \in Callers : RunCallCounted(c)
    \/ \E c \in Callers : OnceLock(c)
    \/ \E c \in Callers : InitSpawn(c)
    \/ \E c \in Callers : InitReturn(c)
    \/ \E c \in Callers : Send(c)
    \/ \E w \in 1..Len(workers) : Receive(w)
    \/ \E w \in 1..Len(workers) : Finish(w)

SpecPoolFair == InitPool /\ [][NextPoolCounted]_vars /\ FairPool

---------------------------------------------------------------------------
(* MultiRoutineRunner with callbacks that call Run on their own pool.      *)

\* the callback fn of a caller calls mrr.Run(child) in its body: the Once
\* is done (a worker runs fn), so Run goes on to mrr.q <- child
CbRun(w) ==
    /\ workers[w].pc = "exec" /\ workers[w].fn[2] <= MaxRuns
    /\ workers' = [workers EXCEPT ![w].pc = "send"]
    /\ UNCHANGED <<ppc, arg, ran, num, q, onceDone, onceM, cpc, ci, calls, codecVars, listVars,
                   seqVars>>

\* mrr.q <- child in the Run called by the callback: blocks while the
\* buffer is full; Run then returns into the callback
CbSend(w) ==
    /\ workers[w].pc = "send" /\ Len(q) < QueueCap
    /\ q' = Append(q, <<workers[w].fn[1], MaxRuns + workers[w].fn[2]>>)
    /\ workers' = [workers EXCEPT ![w].pc = "ret"]
    /\ UNCHANGED <<ppc, arg, ran, num, onceDone, onceM, cpc, ci, calls, codecVars, listVars,
                   seqVars>>

NextReentrant ==
    \/ NextPool
    \/ \E w \in 1..Len(workers) : CbRun(w)
    \/ \E w \in 1..Len(workers) : CbSend(w)

SpecReentrant == InitPool /\ [][NextReentrant]_vars

---------------------------------------------------------------------------
(* SequentialRunner (runner.go).                                           *)

InitSeq ==
    /\ spc = [c \in Callers |-> "idle"]
    /\ scalls = [c \in Callers |-> 0]
    /\ cbst = [cb \in Callbacks |-> "new"]
    /\ CodecOff /\ ListOff /\ PoolOff

\* the callbacks whose side effect is written
Visible == {cb \in Callbacks : cbst[cb] \in {"tail", "done"}}

\* the callbacks that have returned
Returned == {cb \in Callbacks : cbst[cb] = "done"}

\* Run returning while fn still runs, as go fn() would
SeqRunAsync(c) == TRUE

\* Run(fn) returns when fn(), called in Run's own body, has returned
SeqRunDone(c) == cbst[<<c, scalls[c]>>] = "done"

\* a caller enters SequentialRunner.Run(fn): fn() starts
SeqRun(c) ==
    /\ spc[c] = "idle" /\ scalls[c] < MaxSeqRuns
    /\ scalls' = [scalls EXCEPT ![c] = @ + 1]
    /\ spc' = [spc EXCEPT ![c] = "in"]
    /\ cbst' = [cbst EXCEPT ![<<c, scalls[c] + 1>>] = "body"]
    /\ UNCHANGED <<codecVars, listVars, poolVars>>

\* a running callback writes its side effect
CbEffect(cb) ==
    /\ cbst[cb] = "body"
    /\ cbst' = [cbst EXCEPT ![cb] = "tail"]
    /\ UNCHANGED <<spc, scalls, codecVars, listVars, poolVars>>

\* a running callback returns
CbReturn(cb) ==
    /\ cbst[cb] = "tail"
    /\ cbst' = [cbst EXCEPT ![cb] = "done"]
    /\ UNCHANGED <<spc, scalls, codecVars, listVars, poolVars>>

\* Run returns to its caller
SeqReturn(c) ==
    /\ spc[c] = "in" /\ SeqRunDone(c)
    /\ spc' = [spc EXCEPT ![c] = "idle"]
    /\ UNCHANGED <<scalls, cbst, codecVars, listVars, poolVars>>

NextSeq ==
    \/ \E c \in Callers : SeqRun(c)
    \/ \E cb \in Callbacks : CbEffect(cb)
    \/ \E cb \in Callbacks : CbReturn(cb)
    \/ \E c \in Callers : SeqReturn(c)

SpecSeq == InitSeq /\ [][NextSeq]_vars

---------------------------------------------------------------------------
(* The claims.                                                             *)

\* C1: ReadFrom on the zero value of a variant over exactly the bytes
\* x.WriteTo produced succeeds and leaves the variant equal to x.
C1_RoundTrip ==
    (ipc = "read" /\ ibytes = WriteTo(x).b) => (ires.err = NoErr /\ ires.inst = x)

\* C2: an instruction list written by Instructions.WriteTo and read back by
\* Instructions.ReadFrom into an empty list from exactly those bytes yields
\* the same instructions in the same order.
C2_ListRoundTrip ==
    (lpc = "done" /\ stream = Instructions_WriteTo(insts).w)
        => (lerr = NoErr /\ list = insts)

\* C3: the Len field of the header WriteTo emits equals the number of bytes
\* WriteTo emits and is a multiple of 8, whatever the instruction.
C3_LenInvariant ==
    ipc = "counted" => (wLen = wn /\ wLen % 8 = 0)

Executing == {w \in 1..Len(workers) : workers[w].pc = "exec"}

\* C4: at most num callbacks handed to a pool's Run execute at any instant.
C4_AtMostNumRunning ==
    ppc = "ready" => Cardinality(Executing) <= num

\* two callbacks execute in a pool of two while a third waits in the queue
C4_Witness ==
    ppc = "ready" /\ num = 2 /\ Cardinality(Executing) = 2 /\ q # <<>>

\* C5: no worker is started before the first Run call, never more than num
\* are started, and once a Run call has returned (or the Once is done)
\* exactly num have been started.
C5_LazyOnce ==
    /\ (\A c \in Callers : calls[c] = 0) => workers = <<>>
    /\ Len(workers) <= num
    /\ (\E c \in Callers : calls[c] > 0 /\ cpc[c] = "idle") => Len(workers) = num
    /\ onceDone => Len(workers) = num

\* two callers race for the first use: one has started every worker inside
\* init while the other waits for the Once
C5_Witness ==
    \E c, d \in Callers :
        /\ cpc[c] = "init" /\ cpc[d] = "lock"
        /\ num = 2 /\ Len(workers) = 2

\* C6: the queue never holds more than num callbacks; a Run call returns
\* only from a state in which the queue has a free slot; slots are freed
\* only by a worker taking the oldest callback; and a Run call that finds a
\* free slot can return whatever the workers are doing.
C6_Backpressure ==
    /\ [](Len(q) <= num)
    /\ [][\A c \in Callers :
            (cpc[c] = "send" /\ cpc'[c] # "send") => Len(q) < num]_vars
    /\ [][Len(q') < Len(q) =>
            \E w \in 1..Len(workers) :
                /\ workers[w].pc = "recv" /\ workers'[w].pc = "exec"
                /\ workers'[w].fn = Head(q) /\ q' = Tail(q)]_vars
    /\ [](\A c \in Callers :
            (cpc[c] = "send" /\ Len(q) < num) => ENABLED Send(c))

\* a Run call is blocked: the queue is full and every worker is executing
C6_Witness ==
    /\ ppc = "ready" /\ Len(workers) = num /\ Len(q) = num
    /\ Cardinality(Executing) = num
    /\ \E c \in Callers : cpc[c] = "send"

\* C7: SequentialRunner.Run(f) returns only after f has returned; a caller's
\* next callback g starts only after its previous callback f has returned,
\* with the side effect of f written; a caller's callbacks start in the
\* order of its calls.
C7_SeqSynchronous ==
    /\ [](\A c \in Callers :
            spc[c] = "idle" => \A k \in 1..scalls[c] : cbst[<<c, k>>] = "done")
    /\ [][\A cb \in Callbacks :
            (cbst[cb] = "new" /\ cbst'[cb] # "new") =>
                /\ cbst'[cb] = "body"
                /\ \A k \in 1..(cb[2] - 1) :
                      <<cb[1], k>> \in Returned /\ <<cb[1], k>> \in Visible
                /\ \A k \in (cb[2] + 1)..MaxSeqRuns : cbst[<<cb[1], k>>] = "new"]_vars

\* a caller's second callback runs, its first one has returned, while
\* another caller's callback runs too
C7_Witness ==
    \E c, d \in Callers :
        /\ c # d /\ cbst[<<c, 1>>] = "done" /\ cbst[<<c, 2>>] = "body"
        /\ cbst[<<d, 1>>] = "tail"

\* C8: at most one callback handed to a SequentialRunner executes at any
\* instant, however many callers invoke Run.
C8_OneAtATime ==
    Cardinality({cb \in Callbacks : cbst[cb] \in {"body", "tail"}}) <= 1

\* C9: a decode-loop iteration that meets an unregistered tag ends
\* Instructions.ReadFrom with the unknown-instruction-type error carrying
\* that tag, reads nothing and adds nothing to the list; nothing is decoded
\* after ReadFrom has ended.
C9_UnknownTag ==
    /\ [][(lpc = "scan" /\ Len(wire) >= 2
             /\ GetU16(wire, 1) \notin DOMAIN instructionMap)
            => /\ lpc' = "done"
               /\ lerr' = UnknownType(GetU16(wire, 1))
               /\ list' = list /\ wire' = wire /\ ln' = ln]_vars
    /\ [][lpc = "done" => UNCHANGED <<lpc, list, wire, ln, lerr>>]_vars

\* tag 0x1234 follows one decoded instruction and ends the decoding
C9_Witness ==
    /\ lpc = "done" /\ lerr = UnknownType(4660)
    /\ Len(list) = 1 /\ wire # <<>>

\* C10: ReadFrom on an instruction whose header Len is not a multiple of 8
\* returns an error.
C10_LenMultipleOf8 ==
    (ipc = "read" /\ GetU16(ibytes, 3) % 8 # 0) => ires.err # NoErr

\* C11: NewMultiRoutineRunner(n) panics for n <= 0, and no pool then exists
\* (nothing is queued, started or run); for n >= 1 it returns a pool with
\* num = n and a queue of capacity n, and starts no worker.
C11_NewPanics ==
    /\ [](ppc = "panic" =>
            /\ arg <= 0 /\ num = 0 /\ q = <<>> /\ workers = <<>>
            /\ \A c \in Callers : calls[c] = 0 /\ ~ENABLED RunCall(c))
    /\ [](ppc = "ready" => arg >= 1 /\ num = arg /\ QueueCap = arg)
    /\ [][ppc = "none" =>
            /\ ppc' \in {"panic", "ready"}
            /\ workers' = <<>> /\ q' = <<>> /\ onceDone' = FALSE]_vars

\* NewMultiRoutineRunner(0) has panicked
C11_Witness == ppc = "panic" /\ arg = 0

\* the variants that carry an action list
ActionKinds == {"ApplyActions", "WriteActions"}

\* C12: decoding ApplyActions or WriteActions never over-reads: whatever the
\* header's Len, readInstructionActions reads at most Len bytes of the
\* stream (the four header bytes, read before Len is known, aside).
C12_NoOverRead ==
    (ipc = "read" /\ x.kind \in ActionKinds /\ Len(ibytes) >= 4) =>
        \/ ires.n <= GetU16(ibytes, 3)
        \/ ires.n <= 4

\* C13: the bytes handed to the Actions decoder are exactly the serialized
\* action buffer that the encoder wrote after the header and the 4-byte pad.
C13_ActionBytes ==
    (ipc = "read" /\ x.kind \in ActionKinds /\ ibytes = WriteTo(x).b) =>
        limrd(ibytes) = Actions_bytes(x.actions).b

\* index of the first instruction of l whose WriteTo fails
FirstFailure(l) ==
    CHOOSE k \in 1..Len(l) :
        /\ WriteTo(l[k]).err # NoErr
        /\ \A j \in 1..(k - 1) : WriteTo(l[j]).err = NoErr

\* the bytes of the instructions of l, each serialized by its own WriteTo
RECURSIVE Serialized(_)
Serialized(l) ==
    IF l = <<>> THEN <<>> ELSE WriteTo(Head(l)).b \o Serialized(Tail(l))

\* C14: Instructions.WriteTo is all-or-nothing: when the WriteTo of the k-th
\* instruction fails the target has received no byte, the error is that
\* first failure and no later instruction was serialized; the target gets
\* the bytes, all of them, only when every instruction was serialized.
C14_AllOrNothing ==
    /\ [](lpc = "wfail" => stream = <<>>)
    /\ [][lpc = "new" =>
            \/ /\ lpc' = "wfail"
               /\ stream' = <<>>
               /\ wcalls' = FirstFailure(insts)
               /\ lerr' = WriteTo(insts[FirstFailure(insts)]).err
            \/ /\ lpc' = "wire"
               /\ \A j \in 1..Len(insts) : WriteTo(insts[j]).err = NoErr
               /\ stream' = Serialized(insts)
               /\ wcalls' = Len(insts) /\ lerr' = NoErr]_vars

\* a list whose second instruction failed after the first was buffered
C14_Witness ==
    /\ lpc = "wfail" /\ wcalls = 2 /\ Len(insts) = 2
    /\ WriteTo(insts[1]).b # <<>>

\* C15: Instructions.ReadFrom appends an instruction only after its decode
\* returned: a successful iteration adds exactly the decoded instruction,
\* and the iteration that fails (unknown tag, or an error inside the
\* variant's ReadFrom) adds nothing, so that the list holds the k-1 earlier
\* instructions when decoding fails at the k-th.
C15_AppendAfterDecode ==
    [][lpc = "scan" =>
         /\ (lpc' = "scan") => Len(list') = Len(list) + 1
         /\ (lpc' = "done" /\ lerr' # NoErr) =>
                list' = list /\ Len(list') = iters' - 1]_vars

\* C16: the registry is consistent: the tags are GotoTable 1, WriteMetadata 2,
\* WriteActions 3, ApplyActions 4, ClearActions 5, Meter 6 and Experimenter
\* 0xffff; the registry holds exactly the tags 1..6 (0xffff and every other
\* value is unregistered); the variant made for a registered tag t reports
\* Type() = t, and every instruction is written with its tag in the header's
\* type field and is of the variant the registry makes for that tag.
C16_RegistryConsistent ==
    /\ <<InstructionTypeGotoTable, InstructionTypeWriteMetadata,
          InstructionTypeWriteActions, InstructionTypeApplyActions,
          InstructionTypeClearActions, InstructionTypeMeter,
          InstructionTypeExperimenter>> = <<1, 2, 3, 4, 5, 6, 65535>>
    /\ DOMAIN instructionMap = 1..6
    /\ InstructionTypeExperimenter \notin DOMAIN instructionMap
    /\ \A t \in DOMAIN instructionMap :
          /\ Type(ZeroValue(instructionMap[t])) = t
          /\ GetU16(WriteTo(ZeroValue(instructionMap[t])).b, 1) = t
    /\ (ipc = "written" /\ ibytes = WriteTo(x).b) =>
          /\ GetU16(ibytes, 1) = Type(x)
          /\ Type(x) \in DOMAIN instructionMap
          /\ instructionMap[Type(x)] = x.kind
    /\ (ipc = "read" /\ GetU16(ibytes, 1) = Type(x) /\ ires.err = NoErr) =>
          Type(ires.inst) = GetU16(ibytes, 1)

\* an ApplyActions instruction is on the wire under tag 4
C16_Witness ==
    /\ ipc = "written" /\ x.kind = "ApplyActions" /\ x.actions # <<>>
    /\ GetU16(ibytes, 1) = 4

\* the callbacks handed to Run by the callers
CallerCallbacks == Callers \X (1..MaxRuns)

\* cb has been started and has returned
Completed(cb) ==
    /\ ran[cb] = 1
    /\ \A w \in 1..Len(workers) : workers[w].fn # cb

\* no Run call is pending and every callback handed to Run has completed
Quiescent ==
    /\ \A c \in Callers : cpc[c] = "idle"
    /\ \A cb \in CallerCallbacks : calls[cb[1]] >= cb[2] => Completed(cb)

\* C17: in a pool with n >= 1 whose callbacks terminate and do not call Run,
\* under fair scheduling every Run call returns and every callback handed
\* to Run is executed (the callers making finitely many calls, the pool
\* comes to rest with no call pending and every callback completed), and
\* exactly once: none is started twice, none is lost or started again after
\* it completed.
C17_Liveness ==
    /\ [](\A cb \in PoolCallbacks : ran[cb] <= 1)
    /\ [][\A cb \in CallerCallbacks : Completed(cb) => Completed(cb)']_vars
    /\ (ppc = "ready") ~> [](Quiescent)

\* every caller has handed in all its callbacks and all of them have run
C17_Witness ==
    /\ num = 1 /\ CallsUpTo(NumCallers) = MaxCalls
    /\ \E c \in Callers : calls[c] = MaxRuns
    /\ Quiescent

\* C18: callbacks leave the queue in the order in which Run enqueued them:
\* Run adds at the tail, a worker takes the head, nothing else changes the
\* queue, so that a worker which runs a and later b took a first and a was
\* enqueued before b; the callbacks of one caller are started in the order
\* of its calls (with FixedPool(1) and a single caller they execute in call
\* order).  The order in which callbacks complete is not constrained.
C18_Fifo ==
    /\ [][q' # q =>
            \/ \E cb \in PoolCallbacks : q' = Append(q, cb)
            \/ /\ q # <<>> /\ q' = Tail(q)
               /\ \E w \in 1..Len(workers) :
                     /\ workers[w].pc = "recv"
                     /\ workers'[w] = [pc |-> "exec", fn |-> Head(q)]]_vars
    /\ [][\A cb \in PoolCallbacks :
            ran'[cb] > ran[cb] =>
                /\ cb = Head(q)
                /\ \A k \in 1..(cb[2] - 1) : ran[<<cb[1], k>>] >= 1]_vars
    /\ [](\A i, j \in 1..Len(q) :
            (i < j /\ q[i][1] = q[j][1]) => q[i][2] < q[j][2])

\* two workers: the second callback of a caller has completed while its
\* first callback is still running
C18_Witness ==
    /\ num = 2
    /\ \E c \in Callers :
          /\ Completed(<<c, 2>>)
          /\ \E w \in 1..Len(workers) : workers[w] = [pc |-> "exec", fn |-> <<c, 1>>]

\* every worker of the pool is inside a Run call of its callback, waiting
\* for a slot of the full queue
AllWorkersBlocked ==
    /\ ppc = "ready" /\ onceDone /\ Len(workers) = num
    /\ \A w \in 1..Len(workers) : workers[w].pc = "send"
    /\ Len(q) = QueueCap

\* C19: in a pool whose callbacks hand further callbacks to Run, a Run call
\* blocked on a full queue is always released by a worker in the end: the
\* pool never reaches a state in which all n workers are blocked inside Run
\* on a full queue.
C19_NoWorkerDeadlock == ~AllWorkersBlocked

\* C20: Instructions.ReadFrom terminates on every finite stream: an
\* iteration that does not stop has consumed at least one byte through the
\* ReadFrom of the variant it selected; an iteration stops with success
\* exactly when the stream is exhausted before a tag can be read, and with
\* an error otherwise; the loop can always take its next iteration and
\* makes at most one iteration per unread byte, plus one; on an empty
\* stream it returns success at once with nothing appended.
C20_Terminates ==
    /\ [][lpc = "scan" =>
            /\ (lpc' = "scan") => (Len(wire') < Len(wire) /\ lerr' = NoErr)
            /\ (lpc' = "done" /\ lerr' = NoErr) => (wire = <<>> /\ list' = list)
            /\ (wire = <<>>) => (lpc' = "done" /\ lerr' = NoErr)]_vars
    /\ [](lpc = "scan" => ENABLED ScanStep)
    /\ [](lpc \in {"scan", "done"} => iters <= Len(stream) + 1)
    /\ []((lpc = "done" /\ stream = <<>>) =>
            (lerr = NoErr /\ list = <<>> /\ iters = 1 /\ ln = 0))

\* two instructions were decoded and the third iteration found the end
C20_Witness ==
    /\ lpc = "done" /\ lerr = NoErr /\ iters = 3 /\ Len(list) = 2
    /\ wire = <<>> /\ ln = Len(stream)

====
